---- MODULE Spec2Model ----
(***************************************************************************)
(* Model of DictOverlay (src/dict_overlay.py): a dict-like object that     *)
(* keeps pending writes and deletions in a staging dict and only writes    *)
(* them to the underlying base dict on flush().                            *)
(*                                                                         *)
(* Python dicts are modelled as TLA+ functions whose domain is the set of  *)
(* keys the dict holds.  Names of the specification map to the code as     *)
(*   get -> __getitem__     set -> __setitem__     delete -> __delitem__   *)
(*   contains -> __contains__   size -> __len__    enumerate -> __iter__   *)
(*   commit -> flush        discard -> reset                               *)
(***************************************************************************)
EXTENDS Integers, FiniteSets, Sequences, TLC

\* ---------------------------------------------------------------- bounds
NumKeys == 2
NumVals == 2
\* __delitem__ can drive self.len down without limit; the model stops
\* deleting once the counter is this far below zero.
MaxDeficit == 2

Keys == 1..NumKeys
Vals == 1..NumVals

\* ------------------------------------------------------------- sentinels
\* The unique object that represents a pending deletion.  Legal values are
\* positive, so no legal value is the marker.
DELETED == 0
\* The `val` of an outcome that carries no value (None, or an exception).
NoValue == 0 - 1
\* The `val` of an exception raised by the base mapping itself.
BaseFault == 0 - 2

VARIABLES
    base,      \* self.base   : the caller's dict
    staged,    \* self.staged : key -> pending value or DELETED
    len,       \* self.len    : the cached length
    call,      \* the most recent call: [op, key, value]
    out,       \* its outcome: [raised, val, keys, seq]
    prev       \* base, staged and len as they were when that call began

vars == <<base, staged, len, call, out, prev>>

\* ------------------------------------------------------------ dict helpers
EmptyDict == [k \in {} |-> NoValue]

\* d[key] = value
DictSet(d, key, value) ==
    [k \in (DOMAIN d) \cup {key} |-> IF k = key THEN value ELSE d[k]]

\* del d[key]
DictDel(d, key) == [k \in (DOMAIN d) \ {key} |-> d[k]]

\* every dict over Keys with values in vs
Dicts(vs) == UNION {[ks -> vs] : ks \in SUBSET Keys}

\* ----------------------------------------------- self.values (a ChainMap)
\* key in self.values
InValues(s, b, key) == key \in DOMAIN s \/ key \in DOMAIN b

\* Variant of ValuesGet: the maps of the chain in the wrong order, base
\* first.
ValuesGet_BaseFirst(s, b, key) == IF key \in DOMAIN b THEN b[key] ELSE s[key]

\* self.values[key], for a key in self.values: staged first, then base
ValuesGet(s, b, key) == IF key \in DOMAIN s THEN s[key] ELSE b[key]

\* the keys of self.values.items()
ValuesKeys(s, b) == (DOMAIN s) \cup (DOMAIN b)

Range(sq) == {sq[i] : i \in DOMAIN sq}

\* The keys of a dict in iteration order.  The model does not keep insertion
\* order; ascending key order stands for it.
RECURSIVE KeySeq(_)
KeySeq(ks) ==
    IF ks = {} THEN <<>>
    ELSE LET key == CHOOSE k \in ks : \A j \in ks : k <= j
         IN <<key>> \o KeySeq(ks \ {key})

\* Variant of ValuesSeq: the keys of both maps, one after the other.
ValuesSeq_NoDedupe(s, b) == KeySeq(DOMAIN b) \o KeySeq(DOMAIN s)

\* iter(self.values): ChainMap collects the keys of base, then those of
\* staged, in one dict, so a key of both comes once
ValuesSeq(s, b) == KeySeq(DOMAIN b) \o KeySeq((DOMAIN s) \ (DOMAIN b))

\* ------------------------------------------------------------- outcomes
Call(o, k, v) == [op |-> o, key |-> k, value |-> v]
Returned(v) == [raised |-> FALSE, val |-> v, keys |-> {}, seq |-> <<>>]
\* an iteration that ran to its end: the keys it yielded, as a set and in
\* the order of yielding
Yielded(ks, sq) == [raised |-> FALSE, val |-> NoValue, keys |-> ks, seq |-> sq]
KeyError == [raised |-> TRUE, val |-> NoValue, keys |-> {}, seq |-> <<>>]
\* an exception of the base mapping that ended flush, after the staged
\* entries of the keys ks had been applied
BaseError(ks) == [raised |-> TRUE, val |-> BaseFault, keys |-> ks, seq |-> <<>>]

\* the object's fields when a call begins
Before == [base |-> base, staged |-> staged, len |-> len]

\* No call is under way: the last one has returned to the caller.  Every
\* method runs to its end before the next is called.
Idle == call.op = "idle"

\* ------------------------------------------------------ pure observations
\* Variant of GetResult: no test for the DELETED marker.
GetResult_NoMarkerTest(s, b, key) ==
    IF ~InValues(s, b, key) THEN KeyError
    ELSE Returned(ValuesGet(s, b, key))

\* __getitem__ raises KeyError for a key missing from self.values or
\* marked DELETED, and returns the value otherwise.
GetResult(s, b, key) ==
    IF ~InValues(s, b, key) THEN KeyError
    ELSE IF ValuesGet(s, b, key) = DELETED THEN KeyError
    ELSE Returned(ValuesGet(s, b, key))

\* Variant of IterKeys: iterates the base only.
IterKeys_BaseOnly(s, b) == {k \in DOMAIN b : ValuesGet(s, b, k) # DELETED}

\* the keys __iter__ yields
IterKeys(s, b) == {k \in ValuesKeys(s, b) : ValuesGet(s, b, k) # DELETED}

\* the keys __iter__ yields, in order
IterSeq(s, b) ==
    LET Live(k) == ValuesGet(s, b, k) # DELETED
    IN SelectSeq(ValuesSeq(s, b), Live)

\* changed() and deleted(), consumed to the end.  Lines 57-61 put the test
\* before the `for`; they are read as the filter
\*     (k for k in self.staged if self[k] is [not] self._DELETED)
\* which looks every staged key up through __getitem__: a KeyError there
\* ends the iteration, otherwise k is yielded when the test
\* (self[k] is _DELETED) = wantDeleted passes.
RECURSIVE StagedScan(_, _, _, _, _)
StagedScan(s, b, todo, wantDeleted, acc) ==
    IF todo = <<>> THEN Yielded(Range(acc), acc)
    ELSE LET k == Head(todo)
             r == GetResult(s, b, k)
         IN IF r.raised THEN KeyError
            ELSE StagedScan(s, b, Tail(todo), wantDeleted,
                            IF (r.val = DELETED) = wantDeleted
                            THEN Append(acc, k) ELSE acc)

ChangedResult(s, b) == StagedScan(s, b, KeySeq(DOMAIN s), FALSE, <<>>)

DeletedResult(s, b) == StagedScan(s, b, KeySeq(DOMAIN s), TRUE, <<>>)

\* Variant of ApplyStaged: pending deletions are not applied.
RECURSIVE ApplyStaged_SkipDeletes(_, _, _)
ApplyStaged_SkipDeletes(b, s, todo) ==
    IF todo = {} THEN b
    ELSE LET key == CHOOSE k \in todo : TRUE
             value == s[key]
             b2 == IF value = DELETED THEN b ELSE DictSet(b, key, value)
         IN ApplyStaged_SkipDeletes(b2, s, todo \ {key})

\* Variant of FlushDeletes: every pending deletion reaches the base.
FlushDeletes_Always(b, key) == TRUE

\* flush's test before `del self.base[key]`
FlushDeletes(b, key) == key \in DOMAIN b

\* flush's loop over self.staged.items(), applied to the base b for the
\* staged keys in todo
RECURSIVE ApplyStaged(_, _, _)
ApplyStaged(b, s, todo) ==
    IF todo = {} THEN b
    ELSE LET key == CHOOSE k \in todo : TRUE
             value == s[key]
             b2 == IF value = DELETED
                   THEN (IF FlushDeletes(b, key) THEN DictDel(b, key) ELSE b)
                   ELSE DictSet(b, key, value)
         IN ApplyStaged(b2, s, todo \ {key})

\* the staged keys at which `del self.base[key]` raises KeyError: the
\* deletion reaches a base that does not hold the key
FlushKeyErrors(b, s) ==
    {key \in DOMAIN s :
        s[key] = DELETED /\ FlushDeletes(b, key) /\ key \notin DOMAIN b}

\* the staged keys for which flush calls the base: every pending write, and
\* the pending deletions that pass the test
FlushTouches(b, s) ==
    {key \in DOMAIN s : s[key] # DELETED \/ FlushDeletes(b, key)}

\* ------------------------------------------------------------------ Init
\* DictOverlay(base) for any base dict
Init ==
    /\ base \in Dicts(Vals)
    /\ staged = EmptyDict
    /\ len = Cardinality(DOMAIN base)
    /\ call = Call("init", 0, NoValue)
    /\ out = Returned(NoValue)
    /\ prev = Before

\* --------------------------------------------------------------- actions
\* flush ended by an exception at a staged entry: the entries of some keys
\* before it (done) are applied, self.staged.clear() is not reached
FlushRaised(stopAt, byBase) ==
    \E done \in SUBSET ((DOMAIN staged) \ stopAt) :
        /\ base' = ApplyStaged(base, staged, done)
        /\ out' = IF byBase THEN BaseError(done) ELSE KeyError
        /\ UNCHANGED <<staged, len>>

\* Variant of flush: self.staged is not cleared.
flush_NoClear ==
    /\ Idle
    /\ call' = Call("flush", 0, NoValue)
    /\ prev' = Before
    /\ IF FlushKeyErrors(base, staged) # {}
       THEN FlushRaised(FlushKeyErrors(base, staged), FALSE)
       ELSE /\ base' = ApplyStaged(base, staged, DOMAIN staged)
            /\ out' = Returned(NoValue)
            /\ UNCHANGED <<staged, len>>

\* flush over a base whose writes and deletions succeed
flush ==
    /\ Idle
    /\ call' = Call("flush", 0, NoValue)
    /\ prev' = Before
    /\ IF FlushKeyErrors(base, staged) # {}
       THEN FlushRaised(FlushKeyErrors(base, staged), FALSE)
       ELSE /\ base' = ApplyStaged(base, staged, DOMAIN staged)
            /\ staged' = EmptyDict
            /\ out' = Returned(NoValue)
            /\ UNCHANGED len

\* Variant of flushFails: self.staged is cleared although flush raised.
flushFails_Clears ==
    /\ Idle
    /\ call' = Call("flush", 0, NoValue)
    /\ prev' = Before
    /\ \E key \in FlushTouches(base, staged) :
        \E done \in SUBSET ((DOMAIN staged) \ {key}) :
           /\ base' = ApplyStaged(base, staged, done)
           /\ out' = BaseError(done)
           /\ staged' = EmptyDict
           /\ UNCHANGED len

\* flush over a base mapping whose write or deletion for one staged entry
\* raises: the exception leaves flush at that entry
flushFails ==
    /\ Idle
    /\ call' = Call("flush", 0, NoValue)
    /\ prev' = Before
    /\ \E key \in FlushTouches(base, staged) :
           FlushRaised({key}, TRUE)

\* Variant of reset: self.len is not recomputed.
reset_KeepLen ==
    /\ Idle
    /\ staged' = EmptyDict
    /\ call' = Call("reset", 0, NoValue)
    /\ prev' = Before
    /\ out' = Returned(NoValue)
    /\ UNCHANGED <<base, len>>

reset ==
    /\ Idle
    /\ staged' = EmptyDict
    /\ len' = Cardinality(DOMAIN base)
    /\ call' = Call("reset", 0, NoValue)
    /\ prev' = Before
    /\ out' = Returned(NoValue)
    /\ UNCHANGED base

changed ==
    /\ Idle
    /\ call' = Call("changed", 0, NoValue)
    /\ prev' = Before
    /\ out' = ChangedResult(staged, base)
    /\ UNCHANGED <<base, staged, len>>

deleted ==
    /\ Idle
    /\ call' = Call("deleted", 0, NoValue)
    /\ prev' = Before
    /\ out' = DeletedResult(staged, base)
    /\ UNCHANGED <<base, staged, len>>

getitem(key) ==
    /\ Idle
    /\ call' = Call("getitem", key, NoValue)
    /\ prev' = Before
    /\ out' = GetResult(staged, base, key)
    /\ UNCHANGED <<base, staged, len>>

\* Mapping.__contains__: try self[key], False on KeyError
contains(key) ==
    /\ Idle
    /\ call' = Call("contains", key, NoValue)
    /\ prev' = Before
    /\ out' = Returned(IF GetResult(staged, base, key).raised THEN 0 ELSE 1)
    /\ UNCHANGED <<base, staged, len>>

\* Variant of setitem: the length is incremented on every call.
setitem_AlwaysIncrement(key, value) ==
    /\ Idle
    /\ len' = len + 1
    /\ staged' = DictSet(staged, key, value)
    /\ call' = Call("setitem", key, value)
    /\ prev' = Before
    /\ out' = Returned(NoValue)
    /\ UNCHANGED base

\* Variant of setitem: the value is written to the base as well.
setitem_WriteThrough(key, value) ==
    /\ Idle
    /\ len' = IF ~InValues(staged, base, key) THEN len + 1 ELSE len
    /\ staged' = DictSet(staged, key, value)
    /\ base' = DictSet(base, key, value)
    /\ call' = Call("setitem", key, value)
    /\ prev' = Before
    /\ out' = Returned(NoValue)

setitem(key, value) ==
    /\ Idle
    /\ len' = IF ~InValues(staged, base, key) THEN len + 1 ELSE len
    /\ staged' = DictSet(staged, key, value)
    /\ call' = Call("setitem", key, value)
    /\ prev' = Before
    /\ out' = Returned(NoValue)
    /\ UNCHANGED base

\* Variant of delitem: the marker is stored and the length decremented
\* before the test that raises.
delitem_MarkFirst(key) ==
    /\ Idle
    /\ call' = Call("delitem", key, NoValue)
    /\ prev' = Before
    /\ staged' = DictSet(staged, key, DELETED)
    /\ len' = len - 1
    /\ out' = IF ~InValues(staged, base, key)
                 \/ ValuesGet(staged, base, key) = DELETED
              THEN KeyError ELSE Returned(NoValue)
    /\ UNCHANGED base

\* Variant of delitem: a key that only the staging dict holds is dropped
\* from it instead of being marked.
delitem_DropStaged(key) ==
    /\ Idle
    /\ call' = Call("delitem", key, NoValue)
    /\ prev' = Before
    /\ IF ~InValues(staged, base, key) \/ ValuesGet(staged, base, key) = DELETED
       THEN /\ out' = KeyError
            /\ UNCHANGED <<base, staged, len>>
       ELSE /\ staged' = IF key \in DOMAIN base
                         THEN DictSet(staged, key, DELETED)
                         ELSE DictDel(staged, key)
            /\ len' = len - 1
            /\ out' = Returned(NoValue)
            /\ UNCHANGED base

\* Variant of delitem: a key already marked DELETED is deleted again.
delitem_NoMarkerTest(key) ==
    /\ Idle
    /\ call' = Call("delitem", key, NoValue)
    /\ prev' = Before
    /\ IF ~InValues(staged, base, key)
       THEN /\ out' = KeyError
            /\ UNCHANGED <<base, staged, len>>
       ELSE /\ staged' = DictSet(staged, key, DELETED)
            /\ len' = len - 1
            /\ out' = Returned(NoValue)
            /\ UNCHANGED base

delitem(key) ==
    /\ Idle
    /\ call' = Call("delitem", key, NoValue)
    /\ prev' = Before
    /\ IF ~InValues(staged, base, key) \/ ValuesGet(staged, base, key) = DELETED
       THEN /\ out' = KeyError
            /\ UNCHANGED <<base, staged, len>>
       ELSE /\ staged' = DictSet(staged, key, DELETED)
            /\ len' = len - 1
            /\ out' = Returned(NoValue)
            /\ UNCHANGED base

length ==
    /\ Idle
    /\ call' = Call("len", 0, NoValue)
    /\ prev' = Before
    /\ out' = Returned(len)
    /\ UNCHANGED <<base, staged, len>>

iter ==
    /\ Idle
    /\ call' = Call("iter", 0, NoValue)
    /\ prev' = Before
    /\ out' = Yielded(IterKeys(staged, base), IterSeq(staged, base))
    /\ UNCHANGED <<base, staged, len>>

\* the call returns: the caller has taken its outcome
return ==
    /\ ~Idle
    /\ call' = Call("idle", 0, NoValue)
    /\ out' = Returned(NoValue)
    /\ prev' = Before
    /\ UNCHANGED <<base, staged, len>>

Next ==
    \/ return
    \/ flush
    \/ flushFails
    \/ reset
    \/ changed
    \/ deleted
    \/ \E key \in Keys : getitem(key)
    \/ \E key \in Keys : contains(key)
    \/ \E key \in Keys, value \in Vals : setitem(key, value)
    \/ \E key \in Keys : len > 0 - MaxDeficit /\ delitem(key)
    \/ length
    \/ iter

Spec == Init /\ [][Next]_vars

\* Only set and delete are called on the freshly built overlay.
NextEdits ==
    \/ return
    \/ \E key \in Keys, value \in Vals : setitem(key, value)
    \/ \E key \in Keys : len > 0 - MaxDeficit /\ delitem(key)

SpecEdits == Init /\ [][NextEdits]_vars

\* ------------------------------------------------- the specification's view
\* is_present(k): staged as a real value if k has a staged entry, in the
\* base otherwise
IsPresent(s, b, k) ==
    IF k \in DOMAIN s THEN s[k] # DELETED ELSE k \in DOMAIN b

PresentKeys(s, b) == {k \in Keys : IsPresent(s, b, k)}

\* what get, enumerate and size show of an overlay with fields s, b, l
View(s, b, l) ==
    [get  |-> [k \in Keys |-> GetResult(s, b, k)],
     keys |-> IterKeys(s, b),
     size |-> l]

\* what get shows of the plain dict b
DictGet(b, k) == IF k \in DOMAIN b THEN Returned(b[k]) ELSE KeyError

\* the view of DictOverlay(b) right after construction
FreshView(b) ==
    [get  |-> [k \in Keys |-> DictGet(b, k)],
     keys |-> DOMAIN b,
     size |-> Cardinality(DOMAIN b)]

Tombstoned(s, k) == k \in DOMAIN s /\ s[k] = DELETED

\* ------------------------------------------------------------------ claims

\* C1: after every set or delete on a freshly built overlay, size() equals
\* the number of keys that are logically present.
C1_SizeInvariant == len = Cardinality(PresentKeys(staged, base))

\* C2: every call other than flush leaves the base dict, keys and values,
\* exactly as it was.
C2_BaseFrame == call.op # "flush" => base = prev.base

\* C2 witness: a set has overwritten, in the view, a key the base holds
\* with another value.
C2_Witness ==
    /\ call.op = "setitem"
    /\ call.key \in DOMAIN base
    /\ base[call.key] # call.value
    /\ staged[call.key] = call.value

\* C3: get of every key, the enumerated keys and size() are the same right
\* after flush as right before it.
C3_CommitKeepsView ==
    call.op = "flush" =>
        View(staged, base, len) = View(prev.staged, prev.base, prev.len)

\* C3 witness: a flush of a batch that deletes one base key and writes
\* another key.
C3_Witness ==
    /\ call.op = "flush"
    /\ ~out.raised
    /\ \E k \in DOMAIN prev.base : Tombstoned(prev.staged, k)
    /\ \E k \in DOMAIN prev.staged : prev.staged[k] # DELETED

\* C4: after flush the staging dict is empty and the base holds exactly the
\* keys that were logically present, each with the value get returned.
C4_CommitAppliesBatch ==
    (call.op = "flush" /\ ~out.raised) =>
        /\ staged = EmptyDict
        /\ DOMAIN base = PresentKeys(prev.staged, prev.base)
        /\ \A k \in Keys :
               DictGet(base, k) = GetResult(prev.staged, prev.base, k)

\* C4 witness: a flush that wrote a staged value over a different base
\* value, or removed a base key, while another base key had no staged entry.
C4_Witness ==
    /\ call.op = "flush"
    /\ ~out.raised
    /\ \E k \in DOMAIN prev.staged :
           /\ k \in DOMAIN prev.base
           /\ prev.staged[k] # prev.base[k]
    /\ \E k \in DOMAIN prev.base :
           /\ k \notin DOMAIN prev.staged
           /\ k \in DOMAIN base

\* C5: after reset the staging dict is empty, size() is the number of base
\* keys, and get and enumerate agree with the base dict: the view is that of
\* a fresh overlay over the base.
C5_DiscardRestoresBase ==
    call.op = "reset" =>
        /\ staged = EmptyDict
        /\ len = Cardinality(DOMAIN base)
        /\ View(staged, base, len) = FreshView(base)

\* C5 witness: a reset of a batch holding a resurrected key, whose cached
\* length had drifted from the number of present keys.
C5_Witness ==
    /\ call.op = "reset"
    /\ prev.staged # EmptyDict
    /\ prev.len # Cardinality(PresentKeys(prev.staged, prev.base))
    /\ prev.len # len

\* C6: the view right after a completed flush is the view of a fresh
\* overlay over the flushed base, and a reset called next, on the staging
\* dict the flush left empty, does not change the view.
C6_CommitThenDiscard ==
    /\ (call.op = "flush" /\ ~out.raised)
           => View(staged, base, len) = FreshView(base)
    /\ (call.op = "reset" /\ prev.staged = EmptyDict)
           => View(staged, base, len) = View(prev.staged, prev.base, prev.len)

\* C7: get(k) right after set(k, v) returns v.
C7_ReadYourWrites ==
    call.op = "setitem" =>
        GetResult(staged, base, call.key) = Returned(call.value)

\* C7 witness: a set of a key that the base holds and the batch had
\* tombstoned, to a value other than the base's.
C7_Witness ==
    /\ call.op = "setitem"
    /\ Tombstoned(prev.staged, call.key)
    /\ call.key \in DOMAIN base
    /\ base[call.key] # call.value

\* C8: right after a successful delete(k), get(k) raises KeyError, and while
\* k stays tombstoned a call on another key leaves get(k) raising KeyError.
C8_DeletedStaysAbsent ==
    \A k \in Keys :
        /\ (call.op = "delitem" /\ call.key = k /\ ~out.raised)
               => GetResult(staged, base, k) = KeyError
        /\ (/\ Tombstoned(prev.staged, k)
            /\ call.op \in {"getitem", "contains", "setitem", "delitem",
                            "len", "iter"}
            /\ call.key # k)
               => GetResult(staged, base, k) = KeyError

\* C8 witness: a set or a successful delete of another key while k is
\* tombstoned and still in the base; get(k) raises.
C8_Witness ==
    \E k \in Keys :
        /\ Tombstoned(prev.staged, k)
        /\ k \in DOMAIN base
        /\ call.op \in {"setitem", "delitem"}
        /\ call.key # k
        /\ ~out.raised
        /\ GetResult(staged, base, k) = KeyError

\* C9: delete(k) raises KeyError exactly when k is not logically present;
\* a successful delete(k) leaves k tombstoned, and a delete(k) that finds k
\* tombstoned raises, so the second of two deletes in a row raises.
C9_DeleteFailsIffAbsent ==
    call.op = "delitem" =>
        /\ out.raised <=> ~IsPresent(prev.staged, prev.base, call.key)
        /\ ~out.raised => Tombstoned(staged, call.key)
        /\ Tombstoned(prev.staged, call.key) => out.raised

\* C9 witness: a delete that raised on a key staged as a tombstone which
\* the base still holds.
C9_Witness ==
    /\ call.op = "delitem"
    /\ out.raised
    /\ Tombstoned(staged, call.key)
    /\ call.key \in DOMAIN base

\* C10: set(k, v) on a tombstoned key makes get(k) return v and k appear
\* among the enumerated keys.
C10_Resurrection ==
    (call.op = "setitem" /\ Tombstoned(prev.staged, call.key)) =>
        /\ GetResult(staged, base, call.key) = Returned(call.value)
        /\ call.key \in IterKeys(staged, base)

\* C10 witness: a set of a tombstoned key that the base does not hold.
C10_Witness ==
    /\ call.op = "setitem"
    /\ Tombstoned(prev.staged, call.key)
    /\ call.key \notin DOMAIN base
    /\ call.key \in IterKeys(staged, base)

\* C11: enumerate yields exactly the logically present keys, each once:
\* no tombstoned or absent key, and a key of both base and staged one time.
C11_EnumeratePresent ==
    LET sq == IterSeq(staged, base)
        present == PresentKeys(staged, base)
    IN /\ Range(sq) = present
       /\ \A k \in present : Cardinality({i \in DOMAIN sq : sq[i] = k}) = 1
       /\ IterKeys(staged, base) = present
       /\ call.op = "iter" => (out.seq = sq /\ out.keys = present)

\* C11 witness: an enumeration while one key is both in the base and staged
\* with a value and another base key is tombstoned.
C11_Witness ==
    /\ call.op = "iter"
    /\ \E k \in DOMAIN base :
           /\ k \in DOMAIN staged
           /\ staged[k] # DELETED
           /\ out.seq = <<k>>
    /\ \E k \in DOMAIN base : Tombstoned(staged, k)

\* C12: deleted() runs to its end without raising and yields exactly the
\* keys staged as a tombstone.
C12_DeletedYieldsTombstones ==
    call.op = "deleted" =>
        /\ ~out.raised
        /\ out.keys = {k \in Keys : Tombstoned(staged, k)}

\* C13: changed() runs to its end without raising and yields exactly the
\* keys staged with a real value.
C13_ChangedYieldsValues ==
    call.op = "changed" =>
        /\ ~out.raised
        /\ out.keys = {k \in DOMAIN staged : staged[k] # DELETED}

\* C14: when the base raises while flush applies the staged entries, the
\* entries already applied stay applied and the others are not, the staging
\* dict and the cached length are as before the call, and a flush that then
\* runs through gives the base an unfailed flush would have given.
C14_PartialCommit ==
    (call.op = "flush" /\ out.raised /\ out.val = BaseFault) =>
        /\ staged = prev.staged
        /\ len = prev.len
        /\ \A k \in out.keys :
               DictGet(base, k) = GetResult(prev.staged, prev.base, k)
        /\ \A k \in Keys \ out.keys : DictGet(base, k) = DictGet(prev.base, k)
        /\ ApplyStaged(base, staged, DOMAIN staged)
               = ApplyStaged(prev.base, prev.staged, DOMAIN prev.staged)

\* C14 witness: a flush that raised after changing the base and before
\* finishing the batch.
C14_Witness ==
    /\ call.op = "flush"
    /\ out.raised
    /\ out.val = BaseFault
    /\ base # prev.base
    /\ base # ApplyStaged(prev.base, prev.staged, DOMAIN prev.staged)

\* C15: set(k, v) adds one to size() when k was not logically present
\* (unknown, or staged as a tombstone) and leaves size() as it was otherwise.
C15_SetSizeStep ==
    call.op = "setitem" =>
        len = prev.len
              + (IF IsPresent(prev.staged, prev.base, call.key) THEN 0 ELSE 1)

ReadOps == {"getitem", "contains", "len", "iter"}

\* C16: the staging dict is empty after construction, after a flush that
\* completes and after reset; it is not empty after a set or a successful
\* delete; get, contains, len, iteration and a failing delete leave its
\* emptiness alone; so only flush and reset empty it and only set and
\* delete fill it.
C16_CleanDirty ==
    LET clean == staged = EmptyDict
        wasClean == prev.staged = EmptyDict
    IN /\ call.op = "init" => clean
       /\ (call.op = "flush" /\ ~out.raised) => clean
       /\ call.op = "reset" => clean
       /\ call.op = "setitem" => ~clean
       /\ (call.op = "delitem" /\ ~out.raised) => ~clean
       /\ (call.op \in ReadOps \/ (call.op = "delitem" /\ out.raised))
              => (clean <=> wasClean)
       /\ (~wasClean /\ clean) => call.op \in {"flush", "reset"}
       /\ (wasClean /\ ~clean) => call.op \in {"setitem", "delitem"}

\* C16 witness: a successful delete of a key that only the staging dict
\* held; the staging dict stays dirty.
C16_Witness ==
    /\ call.op = "delitem"
    /\ ~out.raised
    /\ call.key \notin DOMAIN base
    /\ DOMAIN staged = {call.key}

\* a key staged as a tombstone that the base does not hold
Phantom(s, b, k) == Tombstoned(s, k) /\ k \notin DOMAIN b

\* C17: with a tombstone staged for a key the base never held, flush over a
\* base that does not fail completes, leaves that key out of the base and
\* get of it raising KeyError, and gives every other key what the batch
\* says.
C17_PhantomTombstone ==
    (/\ call.op = "flush"
     /\ out.val # BaseFault
     /\ \E k \in Keys : Phantom(prev.staged, prev.base, k)) =>
        /\ ~out.raised
        /\ \A k \in Keys :
               IF Phantom(prev.staged, prev.base, k)
               THEN /\ k \notin DOMAIN base
                    /\ GetResult(staged, base, k) = KeyError
               ELSE DictGet(base, k) = GetResult(prev.staged, prev.base, k)

\* C17 witness: a completed flush of a batch holding such a tombstone and a
\* write of another key.
C17_Witness ==
    /\ call.op = "flush"
    /\ ~out.raised
    /\ \E k \in Keys : Phantom(prev.staged, prev.base, k)
    /\ \E j \in DOMAIN base :
           /\ j \in DOMAIN prev.staged
           /\ DictGet(prev.base, j) # DictGet(base, j)

\* C18: a get or a delete that raises KeyError leaves the staging dict, the
\* cached length and the base as they were.
C18_FailingOpsNoop ==
    (call.op \in {"getitem", "delitem"} /\ out.raised) =>
        /\ staged = prev.staged
        /\ len = prev.len
        /\ base = prev.base

\* C18 witness: a delete that raised for a key neither the base nor the
\* staging dict holds, with other edits pending.
C18_Witness ==
    /\ call.op = "delitem"
    /\ out.raised
    /\ ~InValues(staged, base, call.key)
    /\ staged # EmptyDict

\* C19: size() is never negative.
C19_SizeNonNegative == len >= 0

InSync == len = Cardinality(PresentKeys(staged, base))

\* C20: the cached length never exceeds the number of logically present
\* keys; it equals that number on construction, and every call but a set of
\* a tombstoned key keeps the two equal.
C20_UnderCountOnly ==
    /\ len <= Cardinality(PresentKeys(staged, base))
    /\ call.op = "init" => InSync
    /\ (/\ prev.len = Cardinality(PresentKeys(prev.staged, prev.base))
        /\ ~(call.op = "setitem" /\ Tombstoned(prev.staged, call.key)))
           => InSync

\* C20 witness: a set of a tombstoned key, from a state where the length was
\* right, has left the length below the number of present keys.
C20_Witness ==
    /\ call.op = "setitem"
    /\ Tombstoned(prev.staged, call.key)
    /\ prev.len = Cardinality(PresentKeys(prev.staged, prev.base))
    /\ len < Cardinality(PresentKeys(staged, base))

====
